---- MODULE Spec2Model ----
(***************************************************************************)
(* A model of the DuraXell biomarker tools:                                *)
(*   extract_structured_biomarkers.py  (value resolution and extraction)   *)
(*   verify_biomarkers.py              (concept matching and coverage)     *)
(*                                                                         *)
(* Representation.  A JSON object (Python dict) is a TLA+ function whose   *)
(* domain is the set of keys that are present, so  k \in DOMAIN d  is      *)
(* Python's  k in d  and <<>> is the empty dict.  A JSON array is a        *)
(* sequence.  A text is the tuple of its characters, so that lower(),      *)
(* substring tests and number parsing are computed character by character. *)
(* A Python value that may be a number, a text or None is tagged:          *)
(* Num(n), Str(s), None.  Num(n) stands for the number n / Scale.          *)
(* coding.code and resourceType are only ever compared for equality and    *)
(* are held as TLA+ strings.                                               *)
(***************************************************************************)
EXTENDS Integers, Sequences, FiniteSets, TLC

\* Bounds of the model.
MaxEntries == 3     \* entries of one patient bundle (extraction)
MaxVEntries == 3    \* entries of one patient bundle (coverage of one patient)
MaxFiles == 3       \* patient files of one verification run
MaxBatch == 3       \* patient files of one extraction run
MaxCodings == 2     \* coding entries of one Observation

\* Numbers are held as integer multiples of 1/Scale (one decimal digit).
Scale == 10

\* datetime.now().year
CurrentYear == 2026

VARIABLES
    observation,      \* Value Resolver: the observation handed to the resolver
    value,            \* Value Resolver: the outcome of the call
    resource,         \* Concept Matcher: the observation handed to the matcher
    biomarker_name,   \* Concept Matcher: the biomarker whose codes/keywords are used
    matched,          \* Concept Matcher: the outcome of the call
    cancer_type,      \* 'breast' or 'lung'
    patient_bundle,   \* extraction: the entries of the bundle iterated so far
    biomarkers,       \* extraction: the record under construction
    pc,               \* extraction: "loop", "returned" or "raised"
    entries,          \* coverage of one patient: the entries iterated so far
    found_biomarkers, \* coverage of one patient: the found set
    apc,              \* coverage of one patient: "loop", "returned", "folded",
                      \*   "raised"
    fhir_files,       \* verification: the patient files folded so far
    stats,            \* verification: per-biomarker counters
    missing_patients, \* verification: patients with a non-empty missing set
    results,          \* verification: what verify_biomarkers returned
    report,           \* verification: what print_report computed
    vpc,              \* verification: "loop", "returned", "reported", "raised"
    all_biomarkers,   \* batch extraction: the records appended so far
    bpc               \* batch extraction: "loop" or "returned"

vars == <<observation, value, resource, biomarker_name, matched, cancer_type,
          patient_bundle, biomarkers, pc, entries, found_biomarkers, apc,
          fhir_files, stats, missing_patients, results, report, vpc,
          all_biomarkers, bpc>>

----------------------------------------------------------------------------
\* Python values

None == [t |-> "None"]
Num(n) == [t |-> "num", n |-> n]
Str(s) == [t |-> "str", s |-> s]

\* The outcome of a call that ended in an exception.
Raise(e) == [t |-> "raise", e |-> e]

\* bool(v): None, 0 and '' are false.
Truthy(v) ==
    CASE v.t = "None" -> FALSE
      [] v.t = "num" -> v.n # 0
      [] v.t = "str" -> v.s # <<>>

\* dict.get(k, default)
Get(d, k, default) == IF k \in DOMAIN d THEN d[k] ELSE default

----------------------------------------------------------------------------
\* Texts

UpperCase == <<"A","B","C","D","E","F","G","H","I","J","K","L","M","N","O","P","Q","R","S","T","U","V","W","X","Y","Z">>
LowerCase == <<"a","b","c","d","e","f","g","h","i","j","k","l","m","n","o","p","q","r","s","t","u","v","w","x","y","z">>
Digits == <<"0","1","2","3","4","5","6","7","8","9">>

LowerChar(c) ==
    IF \E i \in 1..Len(UpperCase) : UpperCase[i] = c
    THEN LowerCase[CHOOSE i \in 1..Len(UpperCase) : UpperCase[i] = c]
    ELSE c

\* str.lower()
Lower(s) == [i \in 1..Len(s) |-> LowerChar(s[i])]

\* Python's  k in s  for two texts
Contains(k, s) ==
    \E i \in 0..(Len(s) - Len(k)) : SubSeq(s, i + 1, i + Len(k)) = k

IsDigit(c) == \E i \in 1..Len(Digits) : Digits[i] = c
DigitValue(c) == (CHOOSE i \in 1..Len(Digits) : Digits[i] = c) - 1
AllDigits(s) == s # <<>> /\ \A i \in 1..Len(s) : IsDigit(s[i])

RECURSIVE DigitsValue(_)
DigitsValue(s) ==
    IF s = <<>> THEN 0
    ELSE 10 * DigitsValue(SubSeq(s, 1, Len(s) - 1)) + DigitValue(s[Len(s)])

RECURSIVE DigitsOf(_)
DigitsOf(n) ==
    IF n < 10 THEN <<Digits[n + 1]>>
    ELSE DigitsOf(n \div 10) \o <<Digits[(n % 10) + 1]>>

\* s.split('-')[0]
SplitFirst(s) ==
    IF \E i \in 1..Len(s) : s[i] = "-"
    THEN SubSeq(s, 1, (CHOOSE i \in 1..Len(s) :
                          s[i] = "-" /\ \A j \in 1..(i - 1) : s[j] # "-") - 1)
    ELSE s

\* int(s) for a text of digits (any other text is a ValueError).
ParseInt(s) == DigitsValue(s)

\* Position of the decimal point of s, 0 when there is none.
PointAt(s) ==
    IF \E i \in 1..Len(s) : s[i] = "."
    THEN CHOOSE i \in 1..Len(s) : s[i] = "." /\ \A j \in 1..(i - 1) : s[j] # "."
    ELSE 0

\* Whether float(v) returns: a number is itself; a text is parsed ('15',
\* '5.5'); any other text is a ValueError and None is a TypeError.
FloatOk(v) ==
    CASE v.t = "num" -> TRUE
      [] v.t = "None" -> FALSE
      [] v.t = "str" ->
           LET p == PointAt(v.s) IN
           IF p = 0 THEN AllDigits(v.s)
           ELSE AllDigits(SubSeq(v.s, 1, p - 1))
                /\ Len(v.s) = p + 1 /\ IsDigit(v.s[p + 1])

\* float(v) where it returns, in units of 1/Scale (one decimal digit).
Float(v) ==
    CASE v.t = "num" -> v.n
      [] v.t = "str" ->
           LET p == PointAt(v.s) IN
           IF p = 0 THEN DigitsValue(v.s) * Scale
           ELSE DigitsValue(SubSeq(v.s, 1, p - 1)) * Scale
                + (DigitValue(v.s[p + 1]) * Scale) \div 10

\* str(v), as an f-string renders a value
Format(v) ==
    CASE v.t = "None" -> <<"N","o","n","e">>
      [] v.t = "str" -> v.s
      [] v.t = "num" ->
           IF v.n % Scale = 0 THEN DigitsOf(v.n \div Scale)
           ELSE DigitsOf(v.n \div Scale) \o <<".">>
                    \o DigitsOf(((v.n % Scale) * 10) \div Scale)

----------------------------------------------------------------------------
\* Value Resolver

\* (mutation: the text is consulted before the coded value)
extract_value_text_first(o) ==
    IF "valueQuantity" \in DOMAIN o
    THEN Get(o.valueQuantity, "value", None)
    ELSE IF "valueString" \in DOMAIN o
    THEN o.valueString
    ELSE IF "valueCodeableConcept" \in DOMAIN o
    THEN LET codings == Get(o.valueCodeableConcept, "coding", << <<>> >>) IN
         IF codings = <<>> THEN Raise("IndexError")
         ELSE Get(codings[1], "display", None)
    ELSE None

\* extract_value_from_observation: quantity, then coded value, then text.
extract_value_from_observation(o) ==
    IF "valueQuantity" \in DOMAIN o
    THEN Get(o.valueQuantity, "value", None)
    ELSE IF "valueCodeableConcept" \in DOMAIN o
    THEN LET codings == Get(o.valueCodeableConcept, "coding", << <<>> >>) IN
         IF codings = <<>> THEN Raise("IndexError")
         ELSE Get(codings[1], "display", None)
    ELSE IF "valueString" \in DOMAIN o
    THEN o.valueString
    ELSE None

----------------------------------------------------------------------------
\* Extraction Engine

IsRaise(r) == "t" \in DOMAIN r /\ r.t = "raise"

\* resource.get('resourceType') == ty
HasType(r, ty) == "resourceType" \in DOMAIN r /\ r.resourceType = ty

\* The record extract_breast_cancer_biomarkers starts from.
BreastRecord ==
    [patient_id |-> None, age |-> None, gender |-> None,
     tnm_t |-> None, tnm_n |-> None, tnm_m |-> None, tnm_complete |-> None,
     er_status |-> None, er_percentage |-> None,
     pr_status |-> None, pr_percentage |-> None,
     her2_status |-> None, ki67_percentage |-> None,
     clinical_stage |-> None, pathological_stage |-> None,
     histology |-> None, diagnosis_date |-> None]

\* The record extract_lung_cancer_biomarkers starts from.
LungRecord ==
    [patient_id |-> None, age |-> None, gender |-> None,
     tnm_t |-> None, tnm_n |-> None, tnm_m |-> None, tnm_complete |-> None,
     histology |-> None, egfr_mutation |-> None, alk_status |-> None,
     pdl1_percentage |-> None, pdl1_category |-> None,
     fev1_percentage |-> None, fev1_category |-> None,
     dlco_percentage |-> None, dlco_category |-> None,
     clinical_stage |-> None, smoking_status |-> None,
     diagnosis_date |-> None]

\* The Patient branch: id, gender and the approximate age.  A birth date
\* whose year does not parse leaves age as it was.
PatientBranch(b, r) ==
    LET birth_date == Get(r, "birthDate", None)
        b1 == [b EXCEPT !.patient_id = Get(r, "id", None),
                        !.gender = Get(r, "gender", None)]
    IN  IF Truthy(birth_date) /\ birth_date.t = "str"
           /\ AllDigits(SplitFirst(birth_date.s))
        THEN [b1 EXCEPT !.age =
                 Num((CurrentYear - ParseInt(SplitFirst(birth_date.s))) * Scale)]
        ELSE b1

\* One coding entry of a breast Condition.
BreastConditionCode(b, r, code) ==
    LET display == Lower(Get(code, "display", Str(<<>>)).s) IN
    IF Contains(<<"b","r","e","a","s","t">>, display) /\ Contains(<<"c","a","n","c","e","r">>, display)
    THEN LET b1 == [b EXCEPT !.diagnosis_date = Get(r, "onsetDateTime", None)] IN
         IF Contains(<<"d","u","c","t","a","l">>, display)
         THEN [b1 EXCEPT !.histology = Str(<<"I","n","v","a","s","i","v","e"," ","D","u","c","t","a","l"," ","C","a","r","c","i","n","o","m","a">>)]
         ELSE IF Contains(<<"l","o","b","u","l","a","r">>, display)
         THEN [b1 EXCEPT !.histology = Str(<<"I","n","v","a","s","i","v","e"," ","L","o","b","u","l","a","r"," ","C","a","r","c","i","n","o","m","a">>)]
         ELSE IF Contains(<<"t","r","i","p","l","e"," ","n","e","g","a","t","i","v","e">>, display)
         THEN [b1 EXCEPT !.histology = Str(<<"T","r","i","p","l","e"," ","N","e","g","a","t","i","v","e"," ","B","r","e","a","s","t"," ","C","a","n","c","e","r">>)]
         ELSE b1
    ELSE b

\* One coding entry of a lung Condition.
LungConditionCode(b, r, code) ==
    LET display == Lower(Get(code, "display", Str(<<>>)).s) IN
    IF Contains(<<"l","u","n","g">>, display) /\ Contains(<<"c","a","n","c","e","r">>, display)
    THEN [b EXCEPT !.diagnosis_date = Get(r, "onsetDateTime", None)]
    ELSE b

\* The Condition branch: the loop over the codings, from entry i on.
RECURSIVE ConditionBranch(_, _, _, _, _)
ConditionBranch(ct, b, r, codes, i) ==
    IF i > Len(codes) THEN b
    ELSE ConditionBranch(ct,
             IF ct = "breast" THEN BreastConditionCode(b, r, codes[i])
             ELSE LungConditionCode(b, r, codes[i]),
             r, codes, i + 1)

\* (mutation: an earlier percentage is kept, the first match wins)
ReceptorStatus_FirstWins(b, pct, status, v) ==
    IF b[pct] # None THEN b
    ELSE LET b1 == [b EXCEPT ![pct] = v] IN
         IF Truthy(v)
         THEN IF FloatOk(v)
              THEN [b1 EXCEPT ![status] =
                       IF Float(v) > 10 * Scale THEN Str(<<"P","o","s","i","t","i","v","e">>)
                       ELSE Str(<<"N","e","g","a","t","i","v","e">>)]
              ELSE Raise("ValueError")
         ELSE b1

\* ER and PR: the percentage, and the status of a truthy one.  float() is
\* not guarded here: a text that is no number ends the call in ValueError.
ReceptorStatus(b, pct, status, v) ==
    LET b1 == [b EXCEPT ![pct] = v] IN
    IF Truthy(v)
    THEN IF FloatOk(v)
         THEN [b1 EXCEPT ![status] =
                  IF Float(v) > 10 * Scale THEN Str(<<"P","o","s","i","t","i","v","e">>)
                  ELSE Str(<<"N","e","g","a","t","i","v","e">>)]
         ELSE Raise("ValueError")
    ELSE b1

\* The Observation branch of extract_breast_cancer_biomarkers.
BreastObservation(b, r) ==
    LET codings == Get(Get(r, "code", <<>>), "coding", << <<>> >>) IN
    IF codings = <<>> THEN Raise("IndexError")
    ELSE
    LET code == codings[1]
        display == Lower(Get(code, "display", Str(<<>>)).s)
        v == extract_value_from_observation(r)
        Loinc(c) == "code" \in DOMAIN code /\ code.code = c
    IN  IF IsRaise(v) THEN v
        ELSE IF Loinc("21905-5") \/ Contains(<<"p","r","i","m","a","r","y"," ","t","u","m","o","r">>, display)
        THEN [b EXCEPT !.tnm_t = v]
        ELSE IF Loinc("21906-3") \/ Contains(<<"l","y","m","p","h"," ","n","o","d","e">>, display)
        THEN [b EXCEPT !.tnm_n = v]
        ELSE IF Loinc("21907-1") \/ Contains(<<"m","e","t","a","s","t","a">>, display)
        THEN [b EXCEPT !.tnm_m = v]
        ELSE IF Loinc("16112-5") \/ Contains(<<"e","s","t","r","o","g","e","n"," ","r","e","c","e","p","t","o","r">>, display)
        THEN ReceptorStatus(b, "er_percentage", "er_status", v)
        ELSE IF Loinc("16113-3") \/ Contains(<<"p","r","o","g","e","s","t","e","r","o","n","e"," ","r","e","c","e","p","t","o","r">>, display)
        THEN ReceptorStatus(b, "pr_percentage", "pr_status", v)
        ELSE IF Loinc("48676-1") \/ Contains(<<"h","e","r","2">>, display)
                \/ Contains(<<"h","e","r","-","2">>, display)
        THEN [b EXCEPT !.her2_status = v]
        ELSE IF Loinc("85319-2") \/ Contains(<<"k","i","-","6","7">>, display)
                \/ Contains(<<"k","i","6","7">>, display)
        THEN [b EXCEPT !.ki67_percentage = v]
        ELSE IF Contains(<<"c","l","i","n","i","c","a","l"," ","s","t","a","g","e">>, display)
        THEN [b EXCEPT !.clinical_stage = v]
        ELSE IF Contains(<<"p","a","t","h","o","l","o","g","i","c","a","l"," ","s","t","a","g","e">>, display)
        THEN [b EXCEPT !.pathological_stage = v]
        ELSE b

\* PD-L1 bands.
Pdl1Category(x) ==
    IF x >= 50 * Scale THEN Str(<<"H","i","g","h"," ","(",">","=","5","0","%",")">>)   \* the source writes U+2265 for >=
    ELSE IF x >= 1 * Scale THEN Str(<<"L","o","w"," ","(","1","-","4","9","%",")">>)
    ELSE Str(<<"N","e","g","a","t","i","v","e"," ","(","<","1","%",")">>)

\* FEV1 bands.
Fev1Category(x) ==
    IF x >= 80 * Scale THEN Str(<<"N","o","r","m","a","l">>)
    ELSE IF x >= 60 * Scale THEN Str(<<"M","i","l","d"," ","o","b","s","t","r","u","c","t","i","o","n">>)
    ELSE IF x >= 40 * Scale THEN Str(<<"M","o","d","e","r","a","t","e"," ","o","b","s","t","r","u","c","t","i","o","n">>)
    ELSE Str(<<"S","e","v","e","r","e"," ","o","b","s","t","r","u","c","t","i","o","n">>)

\* DLCO bands.
DlcoCategory(x) ==
    IF x >= 75 * Scale THEN Str(<<"N","o","r","m","a","l">>)
    ELSE IF x >= 60 * Scale THEN Str(<<"M","i","l","d"," ","r","e","d","u","c","t","i","o","n">>)
    ELSE IF x >= 40 * Scale THEN Str(<<"M","o","d","e","r","a","t","e"," ","r","e","d","u","c","t","i","o","n">>)
    ELSE Str(<<"S","e","v","e","r","e"," ","r","e","d","u","c","t","i","o","n">>)

Category(which, x) ==
    CASE which = "pdl1_category" -> Pdl1Category(x)
      [] which = "fev1_category" -> Fev1Category(x)
      [] which = "dlco_category" -> DlcoCategory(x)

\* PD-L1, FEV1 and DLCO: the percentage, and the category of a truthy one
\* that float() accepts; the try/except leaves the category as it was
\* otherwise.
LungCategory(b, pct, cat, v) ==
    LET b1 == [b EXCEPT ![pct] = v] IN
    IF Truthy(v) /\ FloatOk(v)
    THEN [b1 EXCEPT ![cat] = Category(cat, Float(v))]
    ELSE b1

\* The Observation branch of extract_lung_cancer_biomarkers.
LungObservation(b, r) ==
    LET codings == Get(Get(r, "code", <<>>), "coding", << <<>> >>) IN
    IF codings = <<>> THEN Raise("IndexError")
    ELSE
    LET code == codings[1]
        display == Lower(Get(code, "display", Str(<<>>)).s)
        v == extract_value_from_observation(r)
        Loinc(c) == "code" \in DOMAIN code /\ code.code = c
    IN  IF IsRaise(v) THEN v
        ELSE IF Loinc("21905-5") \/ Contains(<<"p","r","i","m","a","r","y"," ","t","u","m","o","r">>, display)
        THEN [b EXCEPT !.tnm_t = v]
        ELSE IF Loinc("21906-3") \/ Contains(<<"l","y","m","p","h"," ","n","o","d","e">>, display)
        THEN [b EXCEPT !.tnm_n = v]
        ELSE IF Loinc("21907-1") \/ Contains(<<"m","e","t","a","s","t","a">>, display)
        THEN [b EXCEPT !.tnm_m = v]
        ELSE IF Contains(<<"a","d","e","n","o","c","a","r","c","i","n","o","m","a">>, display)
        THEN [b EXCEPT !.histology = Str(<<"A","d","e","n","o","c","a","r","c","i","n","o","m","a">>)]
        ELSE IF Contains(<<"s","q","u","a","m","o","u","s">>, display)
        THEN [b EXCEPT !.histology = Str(<<"S","q","u","a","m","o","u","s"," ","C","e","l","l"," ","C","a","r","c","i","n","o","m","a">>)]
        ELSE IF Contains(<<"l","a","r","g","e"," ","c","e","l","l">>, display)
        THEN [b EXCEPT !.histology = Str(<<"L","a","r","g","e"," ","C","e","l","l"," ","C","a","r","c","i","n","o","m","a">>)]
        ELSE IF Contains(<<"s","m","a","l","l"," ","c","e","l","l">>, display)
        THEN [b EXCEPT !.histology = Str(<<"S","m","a","l","l"," ","C","e","l","l"," ","L","u","n","g"," ","C","a","n","c","e","r">>)]
        ELSE IF Loinc("81691-4") \/ Contains(<<"e","g","f","r">>, display)
        THEN [b EXCEPT !.egfr_mutation = v]
        ELSE IF Loinc("80546-6") \/ Contains(<<"a","l","k">>, display)
        THEN [b EXCEPT !.alk_status = v]
        ELSE IF Loinc("85147-7") \/ Contains(<<"p","d","-","l","1">>, display)
                \/ Contains(<<"p","d","l","1">>, display)
        THEN LungCategory(b, "pdl1_percentage", "pdl1_category", v)
        ELSE IF Loinc("20150-9") \/ Contains(<<"f","e","v","1">>, display)
        THEN LungCategory(b, "fev1_percentage", "fev1_category", v)
        ELSE IF Loinc("19911-7") \/ Contains(<<"d","l","c","o">>, display)
        THEN LungCategory(b, "dlco_percentage", "dlco_category", v)
        ELSE IF Contains(<<"c","l","i","n","i","c","a","l"," ","s","t","a","g","e">>, display)
                \/ Contains(<<"c","a","n","c","e","r"," ","s","t","a","g","e">>, display)
        THEN [b EXCEPT !.clinical_stage = v]
        ELSE IF Contains(<<"s","m","o","k","i","n","g">>, display) \/ Contains(<<"t","o","b","a","c","c","o">>, display)
        THEN [b EXCEPT !.smoking_status = v]
        ELSE b

\* The post-pass: tnm_complete, when the three parts are truthy.
TnmComplete(b) ==
    IF Truthy(b.tnm_t) /\ Truthy(b.tnm_n) /\ Truthy(b.tnm_m)
    THEN [b EXCEPT !.tnm_complete =
             Str(Format(b.tnm_t) \o <<","," ">> \o Format(b.tnm_n)
                 \o <<","," ">> \o Format(b.tnm_m))]
    ELSE b

----------------------------------------------------------------------------
\* Biomarker Profile

BIOMARKER_CODES ==
    [breast |->
        [TNM_T |-> <<"21905-5">>,
         TNM_N |-> <<"21906-3">>,
         TNM_M |-> <<"21907-1">>,
         ER |-> <<"16112-5">>,
         PR |-> <<"16113-3">>,
         HER2 |-> <<"48676-1">>,
         Ki67 |-> <<"85319-2">>,
         Clinical_Stage |-> <<"21908-9", "21902-2">>],
     lung |->
        [TNM_T |-> <<"21905-5">>,
         TNM_N |-> <<"21906-3">>,
         TNM_M |-> <<"21907-1">>,
         Histology |-> <<"59847-4", "31206-6">>,
         EGFR |-> <<"81691-4">>,
         ALK |-> <<"80546-6">>,
         PDL1 |-> <<"85147-7">>,
         FEV1 |-> <<"20150-9">>,
         DLCO |-> <<"19911-7">>]]

BIOMARKER_KEYWORDS ==
    [breast |->
        [TNM_T |-> <<<<"p","r","i","m","a","r","y"," ","t","u","m","o","r">>, <<"t","u","m","o","r"," ","s","t","a","g","i","n","g">>, <<"t"," ","s","t","a","g","e">>, <<"t","n","m"," ","t">>>>,
         TNM_N |-> <<<<"r","e","g","i","o","n","a","l"," ","l","y","m","p","h">>, <<"n","o","d","e">>, <<"n"," ","s","t","a","g","e">>, <<"t","n","m"," ","n">>,
                     <<"l","y","m","p","h"," ","n","o","d","e">>>>,
         TNM_M |-> <<<<"d","i","s","t","a","n","t"," ","m","e","t","a","s","t","a">>, <<"m"," ","s","t","a","g","e">>, <<"t","n","m"," ","m">>, <<"m","e","t","a","s","t","a","s","i","s">>>>,
         ER |-> <<<<"e","s","t","r","o","g","e","n"," ","r","e","c","e","p","t","o","r">>, <<"e","r"," ","r","e","c","e","p","t","o","r">>, <<"e","r"," ","s","t","a","t","u","s">>>>,
         PR |-> <<<<"p","r","o","g","e","s","t","e","r","o","n","e"," ","r","e","c","e","p","t","o","r">>, <<"p","r"," ","r","e","c","e","p","t","o","r">>, <<"p","r"," ","s","t","a","t","u","s">>>>,
         HER2 |-> <<<<"h","e","r","2">>, <<"h","e","r","-","2">>, <<"e","r","b","b","2">>>>,
         Ki67 |-> <<<<"k","i","-","6","7">>, <<"k","i","6","7">>, <<"m","i","b","-","1">>>>,
         Clinical_Stage |-> <<<<"c","l","i","n","i","c","a","l"," ","s","t","a","g","e">>, <<"p","a","t","h","o","l","o","g","i","c","a","l"," ","s","t","a","g","e">>,
                              <<"c","a","n","c","e","r"," ","s","t","a","g","e">>>>],
     lung |->
        [TNM_T |-> <<<<"p","r","i","m","a","r","y"," ","t","u","m","o","r">>, <<"t","u","m","o","r"," ","s","t","a","g","i","n","g">>, <<"t"," ","s","t","a","g","e">>, <<"t","n","m"," ","t">>>>,
         TNM_N |-> <<<<"r","e","g","i","o","n","a","l"," ","l","y","m","p","h">>, <<"n","o","d","e">>, <<"n"," ","s","t","a","g","e">>, <<"t","n","m"," ","n">>,
                     <<"l","y","m","p","h"," ","n","o","d","e">>>>,
         TNM_M |-> <<<<"d","i","s","t","a","n","t"," ","m","e","t","a","s","t","a">>, <<"m"," ","s","t","a","g","e">>, <<"t","n","m"," ","m">>, <<"m","e","t","a","s","t","a","s","i","s">>>>,
         Histology |-> <<<<"h","i","s","t","o","l","o","g">>, <<"c","a","r","c","i","n","o","m","a">>, <<"a","d","e","n","o","c","a","r","c","i","n","o","m","a">>,
                         <<"s","q","u","a","m","o","u","s">>>>,
         EGFR |-> <<<<"e","g","f","r">>, <<"e","p","i","d","e","r","m","a","l"," ","g","r","o","w","t","h"," ","f","a","c","t","o","r">>>>,
         ALK |-> <<<<"a","l","k">>, <<"a","n","a","p","l","a","s","t","i","c"," ","l","y","m","p","h","o","m","a"," ","k","i","n","a","s","e">>>>,
         PDL1 |-> <<<<"p","d","-","l","1">>, <<"p","d","l","1">>, <<"p","r","o","g","r","a","m","m","e","d"," ","d","e","a","t","h">>>>,
         FEV1 |-> <<<<"f","e","v","1">>, <<"f","o","r","c","e","d"," ","e","x","p","i","r","a","t","o","r","y"," ","v","o","l","u","m","e">>>>,
         DLCO |-> <<<<"d","l","c","o">>, <<"d","i","f","f","u","s","i","n","g"," ","c","a","p","a","c","i","t","y">>>>]]

CancerTypes == {"breast", "lung"}

\* set(BIOMARKER_CODES.get(cancer_type, {}).keys())
required_biomarkers(ct) == DOMAIN BIOMARKER_CODES[ct]

----------------------------------------------------------------------------
\* Concept Matcher

\* The outcome of a call that returned x.
Ret(x) == [t |-> "return", v |-> x]

\* check_biomarker_in_observation: a coding entry with one of the codes, or
\* a keyword in the first coding's display or in code.text.
check_biomarker_in_observation(o, biomarker_codes, keywords) ==
    LET codes == Get(Get(o, "code", <<>>), "coding", <<>>) IN
    IF \E i \in 1..Len(codes) :
          /\ "code" \in DOMAIN codes[i]
          /\ \E j \in 1..Len(biomarker_codes) : codes[i].code = biomarker_codes[j]
    THEN Ret(TRUE)
    ELSE LET codings == Get(Get(o, "code", <<>>), "coding", << <<>> >>) IN
         IF codings = <<>> THEN Raise("IndexError")
         ELSE LET display == Lower(Get(codings[1], "display", Str(<<>>)).s)
                  text == Lower(Get(Get(o, "code", <<>>), "text", Str(<<>>)).s)
              IN  Ret(\E k \in 1..Len(keywords) :
                         \/ Contains(Lower(keywords[k]), display)
                         \/ Contains(Lower(keywords[k]), text))

----------------------------------------------------------------------------
\* Coverage Verifier

\* The biomarkers of the profile that match observation r.
MatchOutcome(ct, r, name) ==
    check_biomarker_in_observation(r, BIOMARKER_CODES[ct][name],
                                   BIOMARKER_KEYWORDS[ct][name])

\* (mutation: the resource type is not looked at)
AnalyzeEntry_AnyResource(ct, found, entry) ==
    LET r == Get(entry, "resource", <<>>) IN
    IF \E name \in required_biomarkers(ct) : IsRaise(MatchOutcome(ct, r, name))
    THEN Raise("IndexError")
    ELSE Ret(found \cup {name \in required_biomarkers(ct) :
                            MatchOutcome(ct, r, name).v})

\* One iteration of analyze_patient_file's loop over the entries: an
\* Observation adds every biomarker it matches; any other resource adds
\* nothing.  The outcome is the new found set or the exception.
AnalyzeEntry(ct, found, entry) ==
    LET r == Get(entry, "resource", <<>>) IN
    IF HasType(r, "Observation")
    THEN IF \E name \in required_biomarkers(ct) : IsRaise(MatchOutcome(ct, r, name))
         THEN Raise("IndexError")
         ELSE Ret(found \cup {name \in required_biomarkers(ct) :
                                 MatchOutcome(ct, r, name).v})
    ELSE Ret(found)

\* analyze_patient_file's loop over the entries es, from entry i on.
RECURSIVE AnalyzeEntries(_, _, _, _)
AnalyzeEntries(ct, found, es, i) ==
    IF i > Len(es) THEN Ret(found)
    ELSE LET step == AnalyzeEntry(ct, found, es[i]) IN
         IF IsRaise(step) THEN step
         ELSE AnalyzeEntries(ct, step.v, es, i + 1)

\* analyze_patient_file: a file that does not load gives the empty set.
analyze_patient_file(file, ct) ==
    IF file.malformed THEN Ret({})
    ELSE AnalyzeEntries(ct, {}, Get(file.bundle, "entry", <<>>), 1)

----------------------------------------------------------------------------
\* Aggregator

\* (mutation: every counter is incremented, found or not)
FoldStats_CountAll(st, found) == [b \in DOMAIN st |-> st[b] + 1]

\* One iteration of verify_biomarkers's loop: the counters after a patient.
FoldStats(st, found) ==
    [b \in DOMAIN st |-> IF b \in found THEN st[b] + 1 ELSE st[b]]

\* One iteration of verify_biomarkers's loop: the missing-patient list.
FoldMissing(mp, ct, patient_id, found) ==
    LET missing == required_biomarkers(ct) \ found IN
    IF missing # {}
    THEN Append(mp, [patient_id |-> patient_id, missing |-> missing,
                     found |-> found])
    ELSE mp

\* count / total * 100, as the exact fraction num / den (0 when total = 0).
Percentage(count, total) ==
    IF total > 0 THEN [num |-> count * 100, den |-> total]
    ELSE [num |-> 0, den |-> 1]

\* percentage >= p
AtLeast(pct, p) == pct.num >= p * pct.den

\* (mutation: the gate looks at the coverage only, not at the missing list)
print_report_IgnoreMissing(res) ==
    LET coverage == [b \in res.required_biomarkers |->
                        Percentage(Get(res.stats, b, 0), res.total_patients)]
        all_complete == \A b \in res.required_biomarkers : AtLeast(coverage[b], 95)
    IN  [coverage |-> coverage, success |-> all_complete]

\* print_report: the coverage of each required biomarker and the gate.
print_report(res) ==
    LET coverage == [b \in res.required_biomarkers |->
                        Percentage(Get(res.stats, b, 0), res.total_patients)]
        all_complete == \A b \in res.required_biomarkers : AtLeast(coverage[b], 95)
    IN  [coverage |-> coverage,
         success |-> all_complete /\ res.missing_patients = <<>>]

----------------------------------------------------------------------------
\* Inputs: FHIR resources and bundles the tools are run on

Quantity(n) == [valueQuantity |-> [value |-> Num(n), unit |-> Str(<<"%">>)]]
Coded(d) == [valueCodeableConcept |-> [coding |-> <<[display |-> Str(d)]>>]]
Text(s) == [valueString |-> Str(s)]
NoValue == <<>>

Observation(code, val) ==
    [resource |-> ([resourceType |-> "Observation", code |-> code] @@ val)]

PatientEntry ==
    [resource |-> [resourceType |-> "Patient", id |-> Str(<<"p","1">>),
                   gender |-> Str(<<"f","e","m","a","l","e">>),
                   birthDate |-> Str(<<"1","9","7","0","-","0","1","-","0","1">>)]]

ConditionEntry(d) ==
    [resource |-> [resourceType |-> "Condition",
                   code |-> [coding |-> <<[display |-> Str(d)]>>],
                   onsetDateTime |-> Str(<<"2","0","2","0","-","0","3","-","0","1">>)]]

EncounterEntry == [resource |-> [resourceType |-> "Encounter"]]

\* An Observation whose code carries an empty coding list.
EmptyCodingEntry == Observation([coding |-> <<>>], Quantity(15 * Scale))

\* Entries of breast bundles.
BreastPool ==
    { PatientEntry,
      ConditionEntry(<<"D","u","c","t","a","l"," ","b","r","e","a","s","t"," ","c","a","n","c","e","r">>),
      EncounterEntry,
      Observation([coding |-> <<[code |-> "21905-5",
                                 display |-> Str(<<"P","r","i","m","a","r","y"," ","t","u","m","o","r">>)]>>],
                  Text(<<"T","1">>)),
      Observation([coding |-> <<[display |-> Str(<<"P","r","i","m","a","r","y"," ","T","u","m","o","r"," ","s","i","z","e">>)]>>],
                  Text(<<>>)),
      Observation([coding |-> <<[code |-> "21906-3"]>>], Coded(<<"N","0">>)),
      Observation([coding |-> <<[code |-> "21907-1"]>>], Quantity(0)),
      Observation([coding |-> <<[display |-> Str(<<"D","i","s","t","a","n","t"," ","m","e","t","a","s","t","a","s","e","s">>)]>>],
                  Text(<<"M","0">>)),
      Observation([coding |-> <<[code |-> "16112-5"]>>], Quantity(15 * Scale)),
      Observation([coding |-> <<[code |-> "16112-5"]>>], Quantity(10 * Scale)),
      Observation([coding |-> <<[code |-> "16112-5"]>>], Quantity(0)),
      Observation([coding |-> <<[display |-> Str(<<"E","s","t","r","o","g","e","n"," ","r","e","c","e","p","t","o","r"," ","A","g">>)]>>],
                  NoValue),
      Observation([coding |-> <<[code |-> "16112-5"]>>], Coded(<<"P","o","s","i","t","i","v","e">>)),
      Observation([coding |-> <<[code |-> "16113-3"]>>], Quantity(5 * Scale)),
      Observation([coding |-> <<[display |-> Str(<<"P","r","o","g","e","s","t","e","r","o","n","e"," ","r","e","c","e","p","t","o","r">>)]>>],
                  Text(<<"1","0",".","5">>)),
      Observation([coding |-> <<[code |-> "88040-1", display |-> Str(<<"P","a","n","e","l">>)],
                                [code |-> "16112-5"]>>],
                  Quantity(15 * Scale)),
      Observation([coding |-> <<[display |-> Str(<<"H","E","R","2"," ","s","t","a","t","u","s">>)]>>],
                  Coded(<<"P","o","s","i","t","i","v","e">>)),
      EmptyCodingEntry }

\* Entries of lung bundles.
LungPool ==
    { PatientEntry,
      ConditionEntry(<<"N","o","n","-","s","m","a","l","l"," ","c","e","l","l"," ","l","u","n","g"," ","c","a","n","c","e","r">>),
      Observation([coding |-> <<[code |-> "21905-5"]>>], Text(<<"T","2">>)),
      Observation([coding |-> <<[display |-> Str(<<"R","e","g","i","o","n","a","l"," ","l","y","m","p","h"," ","n","o","d","e","s">>)]>>],
                  Text(<<"N","1">>)),
      Observation([coding |-> <<[code |-> "21907-1"]>>], Text(<<"M","0">>)),
      Observation([coding |-> <<[code |-> "21907-1"]>>], Quantity(0)),
      Observation([coding |-> <<[code |-> "85147-7"]>>], Quantity(50 * Scale)),
      Observation([coding |-> <<[code |-> "85147-7"]>>], Quantity(50 * Scale - 1)),
      Observation([coding |-> <<[code |-> "85147-7"]>>], Quantity(1 * Scale)),
      Observation([coding |-> <<[code |-> "85147-7"]>>], Quantity(1 * Scale - 1)),
      Observation([coding |-> <<[code |-> "85147-7"]>>], Quantity(0)),
      Observation([coding |-> <<[display |-> Str(<<"P","D","-","L","1"," ","e","x","p","r","e","s","s","i","o","n">>)]>>],
                  NoValue),
      Observation([coding |-> <<[code |-> "85147-7"]>>], Text(<<"h","i","g","h">>)),
      Observation([coding |-> <<[code |-> "20150-9"]>>], Quantity(80 * Scale)),
      Observation([coding |-> <<[display |-> Str(<<"F","E","V","1"," ","p","r","e","d","i","c","t","e","d">>)]>>],
                  Quantity(0)),
      Observation([coding |-> <<[code |-> "19911-7"]>>], Quantity(40 * Scale - 1)),
      Observation([coding |-> <<[display |-> Str(<<"A","d","e","n","o","c","a","r","c","i","n","o","m","a"," ","o","f"," ","l","u","n","g">>)]>>],
                  Coded(<<"P","r","e","s","e","n","t">>)),
      Observation([coding |-> <<[display |-> Str(<<"T","o","b","a","c","c","o"," ","s","m","o","k","i","n","g"," ","s","t","a","t","u","s">>)]>>],
                  Coded(<<"F","o","r","m","e","r"," ","s","m","o","k","e","r">>)) }

Pool(ct) == IF ct = "breast" THEN BreastPool ELSE LungPool

\* Observations handed to the Value Resolver: every combination of the
\* three value representations.
QuantityInputs ==
    { <<>>,
      [valueQuantity |-> <<>>],
      [valueQuantity |-> [unit |-> Str(<<"%">>)]],
      [valueQuantity |-> [value |-> Num(0)]],
      [valueQuantity |-> [value |-> Num(15 * Scale)]] }

CodedInputs ==
    { <<>>,
      [valueCodeableConcept |-> <<>>],
      [valueCodeableConcept |-> [coding |-> <<>>]],
      [valueCodeableConcept |-> [coding |-> << <<>> >>]],
      [valueCodeableConcept |-> [coding |-> <<[code |-> "LA6576-8"]>>]],
      [valueCodeableConcept |-> [coding |-> <<[display |-> Str(<<"P","o","s","i","t","i","v","e">>)]>>]],
      [valueCodeableConcept |->
          [coding |-> <<[display |-> Str(<<"N","0">>)], [display |-> Str(<<"N","1">>)]>>]] }

TextInputs ==
    { <<>>, [valueString |-> Str(<<>>)], [valueString |-> Str(<<"T","1">>)],
      [valueString |-> Str(<<"1","5">>)] }

ResolverInputs ==
    { [resourceType |-> "Observation"] @@ q @@ c @@ s :
         q \in QuantityInputs, c \in CodedInputs, s \in TextInputs }

\* Observations handed to the Concept Matcher.
MatcherCodings ==
    { <<>>,
      [coding |-> <<>>],
      [coding |-> << <<>> >>],
      [coding |-> <<[code |-> "16112-5"]>>],
      [coding |-> <<[code |-> "16112-5", display |-> Str(<<"P","a","n","e","l"," ","r","e","s","u","l","t">>)]>>],
      [coding |-> <<[code |-> "88040-1", display |-> Str(<<"P","a","n","e","l"," ","r","e","s","u","l","t">>)],
                    [code |-> "21905-5"]>>],
      [coding |-> <<[display |-> Str(<<"E","s","t","r","o","g","e","n"," ","R","e","c","e","p","t","o","r"," ","A","g">>)]>>],
      [coding |-> <<[display |-> Str(<<"P","a","n","e","l"," ","r","e","s","u","l","t">>)],
                    [display |-> Str(<<"H","E","R","2"," ","s","t","a","t","u","s">>)]>>],
      [coding |-> <<[code |-> "85147-7", display |-> Str(<<"L","y","m","p","h"," ","n","o","d","e"," ","m","e","t","a","s","t","a","s","i","s">>)]>>] }

MatcherTexts ==
    { <<>>, [text |-> Str(<<"E","R"," ","S","t","a","t","u","s">>)], [text |-> Str(<<"P","D","-","L","1"," ","b","y"," ","I","H","C">>)],
      [text |-> Str(<<"B","l","o","o","d"," ","p","r","e","s","s","u","r","e">>)] }

MatcherInputs ==
    { [resourceType |-> "Observation", code |-> c @@ t] :
         c \in MatcherCodings, t \in MatcherTexts }
    \cup { [resourceType |-> "Observation"] }

\* An Observation that carries every given code.
Panel(cs) ==
    Observation([coding |-> [i \in 1..Len(cs) |-> [code |-> cs[i]]]], NoValue)

\* An Observation that carries the code of every biomarker of the profile
\* but the three TNM ones.
RestPanel(ct) ==
    Panel(IF ct = "breast"
          THEN <<"16112-5", "16113-3", "48676-1", "85319-2", "21908-9">>
          ELSE <<"59847-4", "81691-4", "80546-6", "85147-7", "20150-9",
                 "19911-7">>)

TnmPanel == Panel(<<"21905-5", "21906-3", "21907-1">>)

\* Entries of the bundles whose coverage is analysed.
CoveragePool(ct) ==
    { PatientEntry,
      ConditionEntry(<<"B","r","e","a","s","t"," ","c","a","n","c","e","r"," ","w","i","t","h"," ","l","y","m","p","h"," ","n","o","d","e"," ","m","e","t","a","s","t","a","s","i","s">>),
      EmptyCodingEntry,
      TnmPanel,
      RestPanel(ct),
      Observation([coding |-> <<[code |-> "16112-5",
                                 display |-> Str(<<"P","a","n","e","l"," ","r","e","s","u","l","t">>)]>>],
                  Quantity(15 * Scale)),
      Observation([coding |-> <<[display |-> Str(<<"E","s","t","r","o","g","e","n"," ","R","e","c","e","p","t","o","r"," ","A","g">>)]>>],
                  Quantity(5 * Scale)),
      Observation([text |-> Str(<<"P","D","-","L","1"," ","/"," ","H","E","R","2"," ","p","a","n","e","l">>)], NoValue),
      Observation([coding |-> <<[display |-> Str(<<"B","l","o","o","d"," ","p","r","e","s","s","u","r","e">>)]>>],
                  Quantity(120 * Scale)) }

\* Patient files of a verification run: one that does not load, and bundles.
File(es) == [malformed |-> FALSE, bundle |-> [entry |-> es]]
MalformedFile == [malformed |-> TRUE]

FilePool(ct) ==
    { MalformedFile,
      File(<<PatientEntry>>),
      File(<<PatientEntry, TnmPanel, RestPanel(ct)>>),
      File(<<TnmPanel,
             Observation([coding |-> <<[display |-> Str(<<"P","r","i","m","a","r","y"," ","t","u","m","o","r">>)]>>],
                         Text(<<"T","1">>))>>),
      File(<<EmptyCodingEntry>>) }

----------------------------------------------------------------------------
\* Specifications.  Each tool is run on its own; the variables of the
\* others keep their initial values.

InitialRecord(ct) == IF ct = "breast" THEN BreastRecord ELSE LungRecord

ResolverIdle == observation = <<>> /\ value = None
MatcherIdle == resource = <<>> /\ biomarker_name = "" /\ matched = Ret(FALSE)
ExtractIdle == patient_bundle = <<>> /\ biomarkers = <<>> /\ pc = "idle"
CoverageIdle == entries = <<>> /\ found_biomarkers = {} /\ apc = "idle"
VerifyIdle ==
    /\ fhir_files = <<>> /\ stats = <<>> /\ missing_patients = <<>>
    /\ results = <<>> /\ report = <<>> /\ vpc = "idle"

BatchIdle == all_biomarkers = <<>> /\ bpc = "idle"

rvars == <<observation, value>>
mvars == <<resource, biomarker_name, matched>>
evars == <<patient_bundle, biomarkers, pc>>
avars == <<entries, found_biomarkers, apc>>
vvars == <<fhir_files, stats, missing_patients, results, report, vpc>>
bvars == <<all_biomarkers, bpc>>

\* ---- Value Resolver: extract_value_from_observation on any input ----

ResolverInit ==
    /\ cancer_type = "breast"
    /\ BatchIdle /\ ResolverIdle /\ MatcherIdle /\ ExtractIdle /\ CoverageIdle /\ VerifyIdle

Resolve ==
    \E o \in ResolverInputs :
        /\ observation' = o
        /\ value' = extract_value_from_observation(o)
        /\ UNCHANGED <<cancer_type, mvars, bvars, evars, avars, vvars>>

ResolverNext == Resolve

SpecResolver == ResolverInit /\ [][ResolverNext]_vars

\* ---- Concept Matcher: check_biomarker_in_observation on any input ----

MatcherInit ==
    /\ cancer_type \in CancerTypes
    /\ BatchIdle /\ ResolverIdle /\ MatcherIdle /\ ExtractIdle /\ CoverageIdle /\ VerifyIdle

\* One call of the matcher, with the codes and keywords of one biomarker.
Match ==
    \E o \in MatcherInputs, name \in required_biomarkers(cancer_type) :
        /\ biomarker_name = ""
        /\ resource' = o
        /\ biomarker_name' = name
        /\ matched' = MatchOutcome(cancer_type, o, name)
        /\ UNCHANGED <<cancer_type, rvars, bvars, evars, avars, vvars>>

MatcherNext == Match

SpecMatcher == MatcherInit /\ [][MatcherNext]_vars

\* ---- Extraction Engine: one bundle, entry by entry ----

ExtractInit ==
    /\ cancer_type \in CancerTypes
    /\ patient_bundle = <<>>
    /\ biomarkers = InitialRecord(cancer_type)
    /\ pc = "loop"
    /\ BatchIdle /\ ResolverIdle /\ MatcherIdle /\ CoverageIdle /\ VerifyIdle

\* The next entry of the bundle, of resource type ty.
NextEntry(e, ty) ==
    /\ pc = "loop"
    /\ Len(patient_bundle) < MaxEntries
    /\ e \in Pool(cancer_type)
    /\ HasType(e.resource, ty)
    /\ patient_bundle' = Append(patient_bundle, e)

IteratePatient ==
    \E e \in Pool(cancer_type) :
        /\ NextEntry(e, "Patient")
        /\ biomarkers' = PatientBranch(biomarkers, e.resource)
        /\ UNCHANGED <<pc, cancer_type, rvars, bvars, mvars, avars, vvars>>

IterateCondition ==
    \E e \in Pool(cancer_type) :
        /\ NextEntry(e, "Condition")
        /\ biomarkers' = ConditionBranch(cancer_type, biomarkers, e.resource,
               Get(Get(e.resource, "code", <<>>), "coding", <<>>), 1)
        /\ UNCHANGED <<pc, cancer_type, rvars, bvars, mvars, avars, vvars>>

\* The Observation branch of the extractor of cancer type ct.
ObservationBranch(ct, b, r) ==
    IF ct = "breast" THEN BreastObservation(b, r) ELSE LungObservation(b, r)

IterateObservation ==
    \E e \in Pool(cancer_type) :
        /\ NextEntry(e, "Observation")
        /\ LET out == ObservationBranch(cancer_type, biomarkers, e.resource) IN
           IF IsRaise(out)
           THEN pc' = "raised" /\ UNCHANGED biomarkers
           ELSE pc' = "loop" /\ biomarkers' = out
        /\ UNCHANGED <<cancer_type, rvars, bvars, mvars, avars, vvars>>

\* A resource of any other type changes nothing.
IterateOther ==
    \E e \in Pool(cancer_type) :
        /\ NextEntry(e, "Encounter")
        /\ UNCHANGED <<biomarkers, pc, cancer_type, rvars, bvars, mvars, avars, vvars>>

\* The end of the bundle: the post-pass and the return.
Return ==
    /\ pc = "loop"
    /\ biomarkers' = TnmComplete(biomarkers)
    /\ pc' = "returned"
    /\ UNCHANGED <<patient_bundle, cancer_type, rvars, bvars, mvars, avars, vvars>>

ExtractNext ==
    \/ IteratePatient
    \/ IterateCondition
    \/ IterateObservation
    \/ IterateOther
    \/ Return

SpecExtract == ExtractInit /\ [][ExtractNext]_vars

\* ---- Coverage Verifier: one bundle, entry by entry ----

CoverageInit ==
    /\ cancer_type \in CancerTypes
    /\ entries = <<>>
    /\ found_biomarkers = {}
    /\ apc = "loop"
    /\ fhir_files = <<>>
    /\ stats = [b \in required_biomarkers(cancer_type) |-> 0]
    /\ missing_patients = <<>>
    /\ results = <<>> /\ report = <<>> /\ vpc = "idle"
    /\ BatchIdle /\ ResolverIdle /\ MatcherIdle /\ ExtractIdle

AnalyzeNext ==
    \E e \in CoveragePool(cancer_type) :
        /\ apc = "loop"
        /\ Len(entries) < MaxVEntries
        /\ entries' = Append(entries, e)
        /\ LET out == AnalyzeEntry(cancer_type, found_biomarkers, e) IN
           IF IsRaise(out)
           THEN apc' = "raised" /\ UNCHANGED found_biomarkers
           ELSE apc' = "loop" /\ found_biomarkers' = out.v
        /\ UNCHANGED <<cancer_type, rvars, bvars, mvars, evars, vvars>>

AnalyzeReturn ==
    /\ apc = "loop"
    /\ apc' = "returned"
    /\ UNCHANGED <<entries, found_biomarkers, cancer_type, rvars, bvars, mvars, evars,
                   vvars>>

\* verify_biomarkers's use of the returned found set, for this patient.
FoldPatient ==
    /\ apc = "returned"
    /\ stats' = FoldStats(stats, found_biomarkers)
    /\ missing_patients' = FoldMissing(missing_patients, cancer_type, 1,
                                       found_biomarkers)
    /\ apc' = "folded"
    /\ UNCHANGED <<entries, found_biomarkers, cancer_type, rvars, bvars, mvars, evars,
                   fhir_files, results, report, vpc>>

CoverageNext == AnalyzeNext \/ AnalyzeReturn \/ FoldPatient

SpecCoverage == CoverageInit /\ [][CoverageNext]_vars

\* ---- verify_biomarkers and print_report: the fold over the files ----

VerifyInit ==
    /\ cancer_type \in CancerTypes
    /\ fhir_files = <<>>
    /\ stats = [b \in required_biomarkers(cancer_type) |-> 0]
    /\ missing_patients = <<>>
    /\ results = <<>>
    /\ report = <<>>
    /\ vpc = "loop"
    /\ BatchIdle /\ ResolverIdle /\ MatcherIdle /\ ExtractIdle /\ CoverageIdle

\* One iteration of the loop over the files.  The k-th file's stem is k.
FoldFile ==
    \E f \in FilePool(cancer_type) :
        /\ vpc = "loop"
        /\ Len(fhir_files) < MaxFiles
        /\ fhir_files' = Append(fhir_files, f)
        /\ LET out == analyze_patient_file(f, cancer_type) IN
           IF IsRaise(out)
           THEN vpc' = "raised" /\ UNCHANGED <<stats, missing_patients>>
           ELSE /\ vpc' = "loop"
                /\ stats' = FoldStats(stats, out.v)
                /\ missing_patients' =
                       FoldMissing(missing_patients, cancer_type,
                                   Len(fhir_files) + 1, out.v)
        /\ UNCHANGED <<results, report, cancer_type, rvars, bvars, mvars, evars, avars>>

\* The end of the loop (the run stops earlier when there is no file).
VerifyReturn ==
    /\ vpc = "loop"
    /\ fhir_files # <<>>
    /\ results' = [total_patients |-> Len(fhir_files),
                   stats |-> stats,
                   missing_patients |-> missing_patients,
                   required_biomarkers |-> required_biomarkers(cancer_type)]
    /\ vpc' = "returned"
    /\ UNCHANGED <<fhir_files, stats, missing_patients, report, cancer_type,
                   rvars, bvars, mvars, evars, avars>>

\* main: print_report and the exit code.
Report ==
    /\ vpc = "returned"
    /\ LET r == print_report(results) IN
       report' = [coverage |-> r.coverage, success |-> r.success,
                  exit_code |-> IF r.success THEN 0 ELSE 1]
    /\ vpc' = "reported"
    /\ UNCHANGED <<fhir_files, stats, missing_patients, results, cancer_type,
                   rvars, bvars, mvars, evars, avars>>

VerifyNext == FoldFile \/ VerifyReturn \/ Report

SpecVerify == VerifyInit /\ [][VerifyNext]_vars

----------------------------------------------------------------------------
\* Properties of the Extraction Engine

\* A record none of whose fields holds a value an Observation can write.
Unset == [t |-> "unset"]
Marked(ct) == [f \in DOMAIN InitialRecord(ct) |-> Unset]

\* Observation r, taken alone, assigns field f: handed the initial record
\* or a record of placeholders, it returns one whose field f differs.
Writes(ct, r, f) ==
    LET fresh == ObservationBranch(ct, InitialRecord(ct), r)
        marked == ObservationBranch(ct, Marked(ct), r)
    IN  /\ ~IsRaise(fresh)
        /\ ~IsRaise(marked)
        /\ (fresh[f] # None \/ marked[f] # Unset)

\* For every entry of the input pools: the fields it assigns when it is an
\* Observation, and its resolved value.
WrittenFields ==
    [ct \in CancerTypes |->
        [e \in Pool(ct) |->
            IF HasType(e.resource, "Observation")
            THEN {f \in DOMAIN InitialRecord(ct) : Writes(ct, e.resource, f)}
            ELSE {}]]

ResolvedValue ==
    [ct \in CancerTypes |->
        [e \in Pool(ct) |-> extract_value_from_observation(e.resource)]]

\* The positions of the bundle's Observations that assign field f.
Writers(f) ==
    { i \in 1..Len(patient_bundle) :
         f \in WrittenFields[cancer_type][patient_bundle[i]] }

\* The resolved value of the bundle's i-th entry.
ValueAt(i) == ResolvedValue[cancer_type][patient_bundle[i]]

Returned == pc = "returned"

\* C1: in the returned record tnm_complete is non-absent if and only if
\* tnm_t, tnm_n and tnm_m are all three non-absent (not None).
C1_TnmCompleteIffAllPresent ==
    Returned =>
        ((biomarkers.tnm_complete # None)
            <=> (/\ biomarkers.tnm_t # None
                 /\ biomarkers.tnm_n # None
                 /\ biomarkers.tnm_m # None))

\* The status/category fields and their companion percentage fields.
StatusPairs(ct) ==
    IF ct = "breast"
    THEN { <<"er_status", "er_percentage">>, <<"pr_status", "pr_percentage">> }
    ELSE { <<"pdl1_category", "pdl1_percentage">>,
           <<"fev1_category", "fev1_percentage">>,
           <<"dlco_category", "dlco_percentage">> }

\* C2: in the returned record each status/category field is populated if
\* and only if its companion percentage field is present and numerically
\* parseable; no status is left over from an earlier Observation.
C2_StatusIffParseablePercentage ==
    Returned =>
        \A sp \in StatusPairs(cancer_type) :
            (biomarkers[sp[1]] # None)
                <=> (biomarkers[sp[2]] # None /\ FloatOk(biomarkers[sp[2]]))

\* C3: for a breast bundle whose only ER (resp. PR) Observation resolves to
\* a number p, the record has percentage = p and status 'Positive' when
\* p > 10 and 'Negative' when p <= 10 (p = 0 and p = 10 included); when the
\* resolved value is absent the status is absent.
C3_ReceptorStatusByThreshold ==
    (Returned /\ cancer_type = "breast") =>
        \A sp \in StatusPairs("breast") :
            \A i \in Writers(sp[2]) :
                Writers(sp[2]) = {i} =>
                    /\ ValueAt(i).t = "num" =>
                          /\ biomarkers[sp[2]] = ValueAt(i)
                          /\ biomarkers[sp[1]] =
                                IF ValueAt(i).n > 10 * Scale
                                THEN Str(<<"P","o","s","i","t","i","v","e">>)
                                ELSE Str(<<"N","e","g","a","t","i","v","e">>)
                    /\ ValueAt(i) = None => biomarkers[sp[1]] = None

\* C4: for a lung bundle whose only PD-L1 Observation resolves to a number
\* p >= 0 (p = 0 included), pdl1_category is 'High' when p >= 50, 'Low'
\* when 1 <= p < 50 and 'Negative' when p < 1: every numeric percentage
\* receives exactly one category.
C4_Pdl1BandsPartition ==
    (Returned /\ cancer_type = "lung") =>
        \A i \in Writers("pdl1_percentage") :
            (Writers("pdl1_percentage") = {i} /\ ValueAt(i).t = "num") =>
                biomarkers.pdl1_category =
                    IF ValueAt(i).n >= 50 * Scale THEN Str(<<"H","i","g","h"," ","(",">","=","5","0","%",")">>)
                    ELSE IF ValueAt(i).n >= 1 * Scale THEN Str(<<"L","o","w"," ","(","1","-","4","9","%",")">>)
                    ELSE Str(<<"N","e","g","a","t","i","v","e"," ","(","<","1","%",")">>)

\* The fields that receive the resolved value of an Observation.
ValueFields(ct) ==
    IF ct = "breast"
    THEN {"tnm_t", "tnm_n", "tnm_m", "er_percentage", "pr_percentage",
          "her2_status", "ki67_percentage", "clinical_stage",
          "pathological_stage"}
    ELSE {"tnm_t", "tnm_n", "tnm_m", "egfr_mutation", "alk_status",
          "pdl1_percentage", "fev1_percentage", "dlco_percentage",
          "clinical_stage", "smoking_status"}

Last(S) == CHOOSE i \in S : \A j \in S : j <= i
First(S) == CHOOSE i \in S : \A j \in S : i <= j

\* C5: last match wins.  When the bundle holds two or more Observations
\* that match the same biomarker, the biomarker's value field in the
\* returned record is the resolved value of the last of them in bundle
\* order, also when that value is absent.
C5_LastMatchWins ==
    Returned =>
        \A f \in ValueFields(cancer_type) :
            Cardinality(Writers(f)) >= 2 =>
                biomarkers[f] = ValueAt(Last(Writers(f)))

\* C5 witness: a returned record whose field was written twice, first
\* with a value and last with an absent one.
C5_Witness ==
    /\ Returned
    /\ \E f \in ValueFields(cancer_type) :
          /\ Cardinality(Writers(f)) >= 2
          /\ ValueAt(First(Writers(f))) # None
          /\ ValueAt(Last(Writers(f))) = None
          /\ biomarkers[f] = None

----------------------------------------------------------------------------
\* Properties of the Value Resolver

Resolved == observation # <<>>

\* The coding list of the observation's valueCodeableConcept has a first entry.
HasFirstCoding(o) ==
    /\ "coding" \in DOMAIN o.valueCodeableConcept
    /\ o.valueCodeableConcept.coding # <<>>

\* C6: the resolver goes by strict priority, first match wins: the numeric
\* value of valueQuantity when that is present; else the display text of
\* the first coding of valueCodeableConcept when that is present; else
\* valueString verbatim when that is present; else absent.  A lower
\* representation is never consulted when a higher one is present.
C6_ResolverPriority ==
    Resolved =>
        LET o == observation
            q == "valueQuantity" \in DOMAIN o
            c == "valueCodeableConcept" \in DOMAIN o
            s == "valueString" \in DOMAIN o
        IN  /\ q => value = IF "value" \in DOMAIN o.valueQuantity
                            THEN o.valueQuantity.value ELSE None
            /\ (~q /\ c /\ HasFirstCoding(o)) =>
                  value = IF "display" \in DOMAIN o.valueCodeableConcept.coding[1]
                          THEN o.valueCodeableConcept.coding[1].display
                          ELSE None
            /\ (~q /\ ~c /\ s) => value = o.valueString
            /\ (~q /\ ~c /\ ~s) => value = None

\* C6 witness: a call on an Observation that carries a coded value with a
\* display and a text, and no quantity: the result is the display.
C6_Witness ==
    /\ Resolved
    /\ "valueQuantity" \notin DOMAIN observation
    /\ "valueCodeableConcept" \in DOMAIN observation
    /\ HasFirstCoding(observation)
    /\ "display" \in DOMAIN observation.valueCodeableConcept.coding[1]
    /\ "valueString" \in DOMAIN observation
    /\ observation.valueString # observation.valueCodeableConcept.coding[1].display
    /\ value = observation.valueCodeableConcept.coding[1].display

\* C7: the resolver never raises for missing fields.  For a coded value
\* whose coding list is empty or missing, or whose first coding has no
\* display, and for a quantity with no value key, the call returns absent.
C7_ResolverNeverRaises ==
    Resolved =>
        LET o == observation
            q == "valueQuantity" \in DOMAIN o
            c == "valueCodeableConcept" \in DOMAIN o
        IN  /\ ~IsRaise(value)
            /\ (q /\ "value" \notin DOMAIN o.valueQuantity) => value = None
            /\ (~q /\ c /\ ~HasFirstCoding(o)) => value = None
            /\ (~q /\ c /\ HasFirstCoding(o)
                   /\ "display" \notin DOMAIN o.valueCodeableConcept.coding[1])
                  => value = None

----------------------------------------------------------------------------
\* Properties of the Concept Matcher

Called == biomarker_name # ""

\* (a) some coding entry, at any position, has one of the codes.
CodeMatch(o, codes) ==
    LET cs == Get(Get(o, "code", <<>>), "coding", <<>>) IN
    \E i \in 1..Len(cs), j \in 1..Len(codes) :
        "code" \in DOMAIN cs[i] /\ cs[i].code = codes[j]

\* (b) some keyword, lower-cased, is a substring of the lower-cased display
\* of the first coding entry or of the lower-cased code.text.
KeywordMatch(o, keywords) ==
    LET cs == Get(Get(o, "code", <<>>), "coding", <<>>)
        display == IF cs # <<>> /\ "display" \in DOMAIN cs[1]
                   THEN Lower(cs[1].display.s) ELSE <<>>
        text == IF "code" \in DOMAIN o /\ "text" \in DOMAIN o.code
                THEN Lower(o.code.text.s) ELSE <<>>
    IN  \E k \in 1..Len(keywords) :
           \/ Contains(Lower(keywords[k]), display)
           \/ Contains(Lower(keywords[k]), text)

\* C8: check_biomarker_in_observation returns true if and only if (a) or
\* (b); a code match alone suffices, and so does a keyword match alone
\* when no controlled code is present.
C8_MatcherIffCodeOrKeyword ==
    Called =>
        ((matched = Ret(TRUE))
            <=> (\/ CodeMatch(resource, BIOMARKER_CODES[cancer_type][biomarker_name])
                 \/ KeywordMatch(resource,
                                 BIOMARKER_KEYWORDS[cancer_type][biomarker_name])))

----------------------------------------------------------------------------
\* Properties of the Coverage Verifier and of the Aggregator

\* For every entry of the coverage pool that is an Observation: the
\* required biomarkers it matches, by (a) or (b).
MatchedNames ==
    [ct \in CancerTypes |->
        [e \in CoveragePool(ct) |->
            IF HasType(e.resource, "Observation")
            THEN { name \in required_biomarkers(ct) :
                      \/ CodeMatch(e.resource, BIOMARKER_CODES[ct][name])
                      \/ KeywordMatch(e.resource, BIOMARKER_KEYWORDS[ct][name]) }
            ELSE {}]]

\* The required biomarkers matched by at least one Observation of es.
MatchedBy(ct, es) ==
    { name \in required_biomarkers(ct) :
         \E i \in 1..Len(es) : name \in MatchedNames[ct][es[i]] }

\* The missing set verify_biomarkers computed for the one patient.
MissingOfPatient ==
    IF missing_patients = <<>> THEN {} ELSE missing_patients[1].missing

\* C9: the coverage result of one patient: found is exactly the set of
\* required biomarkers matched by at least one Observation of the bundle
\* (Patient and Condition entries add nothing), found is a subset of the
\* required set, and missing = required - found, so the two are disjoint
\* and their union is the required set.
C9_FoundAndMissing ==
    apc = "folded" =>
        LET req == required_biomarkers(cancer_type) IN
        /\ found_biomarkers = MatchedBy(cancer_type, entries)
        /\ found_biomarkers \subseteq req
        /\ MissingOfPatient = req \ found_biomarkers
        /\ MissingOfPatient \cap found_biomarkers = {}
        /\ MissingOfPatient \cup found_biomarkers = req
        /\ \A b \in req : stats[b] = IF b \in found_biomarkers THEN 1 ELSE 0

\* C9 witness: a folded bundle with a Condition whose display holds
\* keywords and two Observations that match the same single biomarker.
C9_Witness ==
    /\ apc = "folded"
    /\ \E i \in 1..Len(entries) : HasType(entries[i].resource, "Condition")
    /\ Cardinality(found_biomarkers) = 1
    /\ \E i, j \in 1..Len(entries) :
          /\ i < j
          /\ MatchedBy(cancer_type, <<entries[i]>>) = found_biomarkers
          /\ MatchedBy(cancer_type, <<entries[j]>>) = found_biomarkers

\* analyze_patient_file on each file of the pool, computed once.
Analysis ==
    [ct \in CancerTypes |->
        [f \in FilePool(ct) |-> analyze_patient_file(f, ct)]]

\* The found set of the k-th file of the run.
FoundOf(k) == Analysis[cancer_type][fhir_files[k]].v

\* The number of files whose found set holds biomarker b.
PatientsWith(b) == Cardinality({k \in 1..Len(fhir_files) : b \in FoundOf(k)})

\* C10: after the fold over N files, stats[B] is the number K of patients
\* whose found set holds B (0 <= K <= N), total_patients is N, the
\* reported coverage is 100*K/N, and missing_patients lists exactly the
\* patients whose missing set is not empty.
C10_StatsCountPatients ==
    vpc = "reported" =>
        LET N == Len(fhir_files)
            req == required_biomarkers(cancer_type)
        IN  /\ results.total_patients = N
            /\ \A b \in req :
                  /\ results.stats[b] = PatientsWith(b)
                  /\ 0 <= results.stats[b] /\ results.stats[b] <= N
                  /\ report.coverage[b].num * N
                        = 100 * PatientsWith(b) * report.coverage[b].den
            /\ { results.missing_patients[j].patient_id :
                    j \in 1..Len(results.missing_patients) }
                  = { k \in 1..N : req \ FoundOf(k) # {} }
            /\ \A i, j \in 1..Len(results.missing_patients) :
                  results.missing_patients[i].patient_id
                     = results.missing_patients[j].patient_id => i = j

\* C10 witness: a reported run of three files in which some biomarker was
\* found in one or two of them and one patient misses nothing.
C10_Witness ==
    /\ vpc = "reported"
    /\ Len(fhir_files) = 3
    /\ \E b \in required_biomarkers(cancer_type) :
          /\ 0 < results.stats[b] /\ results.stats[b] < 3
          /\ report.coverage[b].num * 3 = 100 * results.stats[b] * report.coverage[b].den
    /\ Len(results.missing_patients) = 2


----------------------------------------------------------------------------
\* The verification gate

\* A large run has up to MaxPatients files.
MaxPatients == 20

\* verify_biomarkers's loop from the i-th file on.
RECURSIVE VerifyLoop(_, _, _, _, _)
VerifyLoop(files, ct, i, st, mp) ==
    IF i > Len(files) THEN Ret([stats |-> st, missing_patients |-> mp])
    ELSE LET out == Analysis[ct][files[i]] IN
         IF IsRaise(out) THEN out
         ELSE VerifyLoop(files, ct, i + 1, FoldStats(st, out.v),
                         FoldMissing(mp, ct, i, out.v))

\* verify_biomarkers on a non-empty list of files: the returned dict, or the
\* exception of analyze_patient_file.
verify_biomarkers(files, ct) ==
    LET out == VerifyLoop(files, ct, 1,
                          [b \in required_biomarkers(ct) |-> 0], <<>>) IN
    IF IsRaise(out) THEN out
    ELSE Ret([total_patients |-> Len(files),
              stats |-> out.v.stats,
              missing_patients |-> out.v.missing_patients,
              required_biomarkers |-> required_biomarkers(ct)])

\* A bundle in which every required biomarker is found.
CompleteFile(ct) == File(<<PatientEntry, TnmPanel, RestPanel(ct)>>)

\* Runs of n files of which the first k are the file f and the others are
\* complete.
LargeRun(ct, n, k, f) == [i \in 1..n |-> IF i <= k THEN f ELSE CompleteFile(ct)]

\* ---- main on a large run: verify_biomarkers has returned ----

ReportInit ==
    /\ cancer_type \in CancerTypes
    /\ \E n \in 1..MaxPatients, k \in 0..MaxPatients, f \in FilePool(cancer_type) :
          LET files == LargeRun(cancer_type, n, k, f)
              out == verify_biomarkers(files, cancer_type)
          IN  /\ k <= n
              /\ ~IsRaise(out)
              /\ fhir_files = files
              /\ results = out.v
              /\ stats = results.stats
              /\ missing_patients = results.missing_patients
    /\ report = <<>>
    /\ vpc = "returned"
    /\ BatchIdle /\ ResolverIdle /\ MatcherIdle /\ ExtractIdle /\ CoverageIdle

ReportNext == Report

SpecReport == ReportInit /\ [][ReportNext]_vars

\* C11: the gate of a reported run is pass iff every required biomarker has
\* coverage 100*stats[B]/total of at least 95% and the list of patients with
\* a missing biomarker is empty; the exit code is 0 when the gate passes and
\* 1 otherwise.
C11_GateAndExitCode ==
    vpc = "reported" =>
        LET pass == /\ \A b \in required_biomarkers(cancer_type) :
                          100 * results.stats[b] >= 95 * results.total_patients
                    /\ Len(results.missing_patients) = 0
        IN  /\ report.success <=> pass
            /\ report.exit_code = IF pass THEN 0 ELSE 1

\* C11 witness: a reported run of 20 patients in which every biomarker has a
\* coverage of at least 95%, one below 100%, and the gate fails on the
\* missing list.
C11_Witness ==
    /\ vpc = "reported"
    /\ results.total_patients = 20
    /\ \A b \in required_biomarkers(cancer_type) :
          100 * results.stats[b] >= 95 * results.total_patients
    /\ \E b \in required_biomarkers(cancer_type) : results.stats[b] = 19
    /\ Len(results.missing_patients) = 1
    /\ ~report.success
    /\ report.exit_code = 1

----------------------------------------------------------------------------
\* Batch extraction: extract_biomarkers over the files of a run

\* The loop of extract_breast_cancer_biomarkers / extract_lung_cancer_biomarkers
\* over the entries of a bundle, from the i-th on: the record, or the
\* exception an Observation raised.
RECURSIVE ExtractEntries(_, _, _, _)
ExtractEntries(ct, b, es, i) ==
    IF i > Len(es) THEN b
    ELSE LET r == Get(es[i], "resource", <<>>) IN
         IF HasType(r, "Patient")
         THEN ExtractEntries(ct, PatientBranch(b, r), es, i + 1)
         ELSE IF HasType(r, "Condition")
         THEN ExtractEntries(ct,
                  ConditionBranch(ct, b, r,
                      Get(Get(r, "code", <<>>), "coding", <<>>), 1),
                  es, i + 1)
         ELSE IF HasType(r, "Observation")
         THEN LET out == ObservationBranch(ct, b, r) IN
              IF IsRaise(out) THEN out ELSE ExtractEntries(ct, out, es, i + 1)
         ELSE ExtractEntries(ct, b, es, i + 1)

\* The extractor of cancer type ct on a whole bundle.
extract_cancer_biomarkers(ct, bundle) ==
    LET out == ExtractEntries(ct, InitialRecord(ct),
                              Get(bundle, "entry", <<>>), 1) IN
    IF IsRaise(out) THEN out ELSE TnmComplete(out)

\* One iteration of extract_biomarkers's loop: the output list after a file.
\* Any exception, of the load or of the extractor, skips the file.
ProcessFile(all, ct, file) ==
    IF file.malformed THEN all
    ELSE LET out == extract_cancer_biomarkers(ct, file.bundle) IN
         IF IsRaise(out) THEN all ELSE Append(all, out)

\* Files of a batch: one that does not load, and small bundles.
BatchPool(ct) ==
    IF ct = "breast"
    THEN { MalformedFile,
           File(<<>>),
           File(<<PatientEntry,
                  Observation([coding |-> <<[code |-> "16112-5"]>>],
                              Quantity(15 * Scale))>>),
           File(<<PatientEntry,
                  Observation([coding |-> <<[code |-> "16112-5"]>>],
                              Coded(<<"P","o","s","i","t","i","v","e">>))>>),
           File(<<Observation([coding |-> <<[code |-> "16113-3"]>>],
                              Text(<<"w","e","a","k">>))>>),
           File(<<EmptyCodingEntry>>) }
    ELSE { MalformedFile,
           File(<<PatientEntry,
                  Observation([coding |-> <<[code |-> "85147-7"]>>],
                              Quantity(50 * Scale))>>),
           File(<<PatientEntry,
                  Observation([coding |-> <<[code |-> "85147-7"]>>],
                              Text(<<"h","i","g","h">>))>>),
           File(<<Observation([coding |-> <<[code |-> "20150-9"]>>],
                              Coded(<<"N","o","r","m","a","l">>))>>),
           File(<<Observation([coding |-> <<[code |-> "19911-7"]>>],
                              Text(<<"n","/","a">>))>>),
           File(<<EmptyCodingEntry>>) }

BatchInit ==
    /\ cancer_type \in CancerTypes
    /\ fhir_files = <<>>
    /\ all_biomarkers = <<>>
    /\ bpc = "loop"
    /\ stats = <<>> /\ missing_patients = <<>>
    /\ results = <<>> /\ report = <<>> /\ vpc = "idle"
    /\ ResolverIdle /\ MatcherIdle /\ ExtractIdle /\ CoverageIdle

\* One iteration of the loop over the files.
BatchFile ==
    \E f \in BatchPool(cancer_type) :
        /\ bpc = "loop"
        /\ Len(fhir_files) < MaxBatch
        /\ fhir_files' = Append(fhir_files, f)
        /\ all_biomarkers' = ProcessFile(all_biomarkers, cancer_type, f)
        /\ UNCHANGED <<bpc, cancer_type, rvars, mvars, evars, avars, stats,
                       missing_patients, results, report, vpc>>

\* The end of the loop (the run stops earlier when there is no file).
BatchReturn ==
    /\ bpc = "loop"
    /\ fhir_files # <<>>
    /\ bpc' = "returned"
    /\ UNCHANGED <<fhir_files, all_biomarkers, cancer_type, rvars, mvars,
                   evars, avars, stats, missing_patients, results, report, vpc>>

BatchNext == BatchFile \/ BatchReturn

SpecBatch == BatchInit /\ [][BatchNext]_vars

----------------------------------------------------------------------------
\* Properties of the batch

\* Observation r without its value.
Strip(r) ==
    [k \in DOMAIN r \ {"valueQuantity", "valueCodeableConcept", "valueString"}
        |-> r[k]]

\* The status/percentage pairs of the biomarker Observation r matches, when
\* that biomarker has a categorizer.
Categorized(ct, r) ==
    { sp \in StatusPairs(ct) : Writes(ct, Strip(r), sp[2]) }

\* Observation r resolves to a text that is not a number.
Unparsable(r) ==
    LET v == extract_value_from_observation(r) IN
    v.t = "str" /\ v.s # <<>> /\ ~FloatOk(v)

\* The Observations of a file that loads.
ObservationsOf(file) ==
    IF file.malformed THEN {}
    ELSE { file.bundle.entry[i].resource : i \in
            { j \in 1..Len(file.bundle.entry) :
                HasType(file.bundle.entry[j].resource, "Observation") } }

\* C12: for every file of the batch whose bundle holds one Observation, of a
\* biomarker with a categorizer and resolving to a text that is not a
\* number, the output holds a record with the raw value in the percentage
\* field and the status/category field absent: the patient is not dropped.
C12_UnparsableKeptNotDropped ==
    \A k \in 1..Len(fhir_files) :
        \A r \in ObservationsOf(fhir_files[k]) :
            (ObservationsOf(fhir_files[k]) = {r} /\ Unparsable(r)) =>
                \A sp \in Categorized(cancer_type, r) :
                    \E j \in 1..Len(all_biomarkers) :
                        /\ all_biomarkers[j][sp[2]]
                              = extract_value_from_observation(r)
                        /\ all_biomarkers[j][sp[1]] = None

\* C12 restricted to lung bundles (PD-L1, FEV1, DLCO).
C12_Lung == cancer_type = "lung" => C12_UnparsableKeptNotDropped

\* Lung batches in which the three categorized biomarkers had a text value.
C12_LungCase ==
    /\ cancer_type = "lung"
    /\ bpc = "returned"
    /\ { sp[2] : sp \in StatusPairs("lung") }
         = UNION { { sp[2] : sp \in Categorized("lung", r) } :
                     r \in { o \in UNION { ObservationsOf(fhir_files[k]) :
                                             k \in 1..Len(fhir_files) } :
                               Unparsable(o) } }

\* The files of the run that do not load.
Malformed == { k \in 1..Len(fhir_files) : fhir_files[k].malformed }

\* C13 (verification mode): a file that does not load is skipped: it is not
\* counted in total_patients, adds nothing to stats and is not listed among
\* the patients with missing biomarkers.
C13_MalformedSkipped ==
    vpc = "reported" =>
        /\ results.total_patients = Len(fhir_files) - Cardinality(Malformed)
        /\ \A b \in required_biomarkers(cancer_type) :
              results.stats[b] = Cardinality({k \in 1..Len(fhir_files) \ Malformed :
                                                 b \in FoundOf(k)})
        /\ \A j \in 1..Len(results.missing_patients) :
              results.missing_patients[j].patient_id \notin Malformed

\* The records of the files from the i-th on that load and whose extractor
\* returns.
RECURSIVE RecordsFrom(_, _, _)
RecordsFrom(ct, files, i) ==
    IF i > Len(files) THEN <<>>
    ELSE LET rest == RecordsFrom(ct, files, i + 1) IN
         IF files[i].malformed
            \/ IsRaise(extract_cancer_biomarkers(ct, files[i].bundle))
         THEN rest
         ELSE <<extract_cancer_biomarkers(ct, files[i].bundle)>> \o rest

\* C13 (extraction mode), as far as it holds: the output is, in order, one
\* record for each file that loads and whose extractor returns; a file that
\* does not load, or whose extractor raises, has none.
C13_BatchSkipsFailed ==
    all_biomarkers = RecordsFrom(cancer_type, fhir_files, 1)

\* An extraction run of three files, one that does not load and one whose
\* extractor raises, with one record in the output.
C13_BatchCase ==
    /\ bpc = "returned"
    /\ Len(fhir_files) = 3
    /\ Cardinality(Malformed) = 1
    /\ Len(all_biomarkers) = 1

----------------------------------------------------------------------------
\* The controlled-code step of the Extraction Engine

\* The controlled codes the extractor of cancer type ct tests, in its
\* declared order, and the field each one writes.
ControlledFields(ct) ==
    IF ct = "breast"
    THEN << <<"21905-5", "tnm_t">>, <<"21906-3", "tnm_n">>,
            <<"21907-1", "tnm_m">>, <<"16112-5", "er_percentage">>,
            <<"16113-3", "pr_percentage">>, <<"48676-1", "her2_status">>,
            <<"85319-2", "ki67_percentage">> >>
    ELSE << <<"21905-5", "tnm_t">>, <<"21906-3", "tnm_n">>,
            <<"21907-1", "tnm_m">>, <<"81691-4", "egfr_mutation">>,
            <<"80546-6", "alk_status">>, <<"85147-7", "pdl1_percentage">>,
            <<"20150-9", "fev1_percentage">>, <<"19911-7", "dlco_percentage">> >>

\* The coding list of Observation r.
CodingOf(r) == Get(Get(r, "code", <<>>), "coding", <<>>)

\* The controlled codes carried by the coding entries of r at positions ps.
CodesAt(r, ps) ==
    { CodingOf(r)[p].code :
        p \in { q \in ps \cap (1..Len(CodingOf(r))) :
                  "code" \in DOMAIN CodingOf(r)[q] } }

\* The field of the first biomarker in declared order with a code in cs
\* ("" when there is none).
FirstControlled(ct, cs) ==
    LET cf == ControlledFields(ct)
        hits == { n \in 1..Len(cf) : cf[n][1] \in cs }
    IN  IF hits = {} THEN "" ELSE cf[First(hits)][2]

\* No coding entry of r has a display that selects a biomarker by keyword.
KeywordFree(ct, r) ==
    \A p \in 1..Len(CodingOf(r)) :
        "display" \in DOMAIN CodingOf(r)[p] =>
            \A g \in DOMAIN InitialRecord(ct) :
               ~Writes(ct, [resourceType |-> "Observation",
                            code |-> [coding |->
                               <<[display |-> CodingOf(r)[p].display]>>]], g)

\* The positions of the bundle's Observations.
ObservationPositions ==
    { i \in 1..Len(patient_bundle) :
         HasType(patient_bundle[i].resource, "Observation") }

\* The bundle's only Observation, seen through the coding entries at
\* positions ps, writes its resolved value into the field of the first
\* biomarker in declared order whose code it carries, and into no other.
WritesByCode(ps) ==
    pc \in {"loop", "returned"} =>
        \A i \in ObservationPositions :
            LET r == patient_bundle[i].resource
                f == FirstControlled(cancer_type, CodesAt(r, ps))
            IN  (ObservationPositions = {i} /\ KeywordFree(cancer_type, r)
                 /\ f # "") =>
                    /\ biomarkers[f] = ValueAt(i)
                    /\ \A g \in ValueFields(cancer_type) \ {f} :
                          biomarkers[g] = None

\* C14: when any coding entry of an Observation, at any position of its
\* coding list, carries a biomarker's controlled code, the resolved value is
\* written into that biomarker's field, and the first biomarker in declared
\* order that matches is the only one whose field the Observation changes.
C14_CodeAtAnyPosition == WritesByCode(1..MaxCodings)

\* C14 restricted to the first coding entry of the Observation.
C14_FirstCodingOnly == WritesByCode({1})

\* A returned record whose only Observation carries a controlled code in its
\* first coding entry and has a value.
C14_FirstCodingCase ==
    /\ Returned
    /\ \E i \in ObservationPositions :
          /\ ObservationPositions = {i}
          /\ FirstControlled(cancer_type,
                 CodesAt(patient_bundle[i].resource, {1})) # ""
          /\ ValueAt(i) # None
====
